---------------------------- MODULE Spec2Model ----------------------------
(***************************************************************************)
(* A model of the dynamic data table: the Redux row and column stores with *)
(* their localStorage snapshots (store/index.ts), the CSV codec            *)
(* (utils/csv.ts) and the App component's handlers and derived view        *)
(* (App.tsx).                                                              *)
(*                                                                         *)
(* JavaScript strings are sequences of one-character strings, so that      *)
(* comparison, conversion and search are computed and not assumed.  A      *)
(* JavaScript value is a record [t, s, n]: a string, a number, NaN,        *)
(* undefined or null.  An object is a function from keys (strings) to      *)
(* values; a key outside its DOMAIN is an absent property.                 *)
(***************************************************************************)
EXTENDS Integers, Sequences, FiniteSets, TLC

-----------------------------------------------------------------------------
(* Bounds of the model. *)

\* The number of handler runs (user events and fetch completions) explored
\* after the component has mounted.
MaxSteps == 3

-----------------------------------------------------------------------------
(* Strings. *)

\* The characters the model's strings are made of, in UTF-16 code unit order.
Alphabet ==
    << " ", "-", ".", "0", "1", "2", "3", "4", "5", "6", "7", "8", "9", ":",
       "@", "A", "B", "C", "D", "E", "F", "G", "H", "I", "J", "K", "L", "M",
       "N", "O", "P", "Q", "R", "S", "T", "U", "V", "W", "X", "Y", "Z", "_",
       "a", "b", "c", "d", "e", "f", "g", "h", "i", "j", "k", "l", "m", "n",
       "o", "p", "q", "r", "s", "t", "u", "v", "w", "x", "y", "z" >>

Digits == << "0", "1", "2", "3", "4", "5", "6", "7", "8", "9" >>

CodeUnits ==
    [c \in {Alphabet[i] : i \in 1..Len(Alphabet)} |->
        CHOOSE i \in 1..Len(Alphabet) : Alphabet[i] = c]

CodeUnit(c) == CodeUnits[c]

DigitValue(c) == (CHOOSE i \in 1..10 : Digits[i] = c) - 1

IsDigit(c) == \E i \in 1..10 : Digits[i] = c

\* a < b as JavaScript compares two strings: by code units, a proper prefix
\* first.
RECURSIVE StrLess(_, _)
StrLess(a, b) ==
    IF b = << >> THEN FALSE
    ELSE IF a = << >> THEN TRUE
    ELSE IF Head(a) = Head(b) THEN StrLess(Tail(a), Tail(b))
    ELSE CodeUnit(Head(a)) < CodeUnit(Head(b))

\* The decimal digits of a natural number, as String(n) prints it.
RECURSIVE NatToStr(_)
NatToStr(n) ==
    IF n < 10 THEN << Digits[n + 1] >>
    ELSE NatToStr(n \div 10) \o << Digits[(n % 10) + 1] >>

RECURSIVE DigitsToNat(_, _)
DigitsToNat(s, acc) ==
    IF s = << >> THEN acc
    ELSE DigitsToNat(Tail(s), acc * 10 + DigitValue(Head(s)))

RECURSIVE TrimLeft(_)
TrimLeft(s) ==
    IF s # << >> /\ Head(s) = " " THEN TrimLeft(Tail(s)) ELSE s

RECURSIVE TrimRight(_)
TrimRight(s) ==
    IF s # << >> /\ s[Len(s)] = " " THEN TrimRight(SubSeq(s, 1, Len(s) - 1))
    ELSE s

\* String.prototype.trim
Trim(s) == TrimRight(TrimLeft(s))

-----------------------------------------------------------------------------
(* Values. *)

Str(s) == [t |-> "str", s |-> s, n |-> 0]
Num(n) == [t |-> "num", s |-> << >>, n |-> n]
NaN == [t |-> "nan", s |-> << >>, n |-> 0]
Undef == [t |-> "undef", s |-> << >>, n |-> 0]
Null == [t |-> "null", s |-> << >>, n |-> 0]

\* What `!v` negates: a value is falsy when it is undefined, null, NaN, 0 or
\* the empty string.
Truthy(v) ==
    CASE v.t = "str" -> v.s # << >>
      [] v.t = "num" -> v.n # 0
      [] OTHER -> FALSE

\* a || b
OrElse(a, b) == IF Truthy(a) THEN a ELSE b

\* Number(v), for the strings of the model: an optionally padded run of
\* digits is its value, the empty string is 0, anything else is NaN.
ToNumber(v) ==
    CASE v.t = "num" -> v
      [] v.t = "null" -> Num(0)
      [] v.t = "str" ->
            LET d == Trim(v.s)
            IN  IF \A i \in 1..Len(d) : IsDigit(d[i])
                THEN Num(DigitsToNat(d, 0))
                ELSE NaN
      [] OTHER -> NaN

\* String(v) and template interpolation, for the non-negative numbers of the
\* model.
ToStr(v) ==
    CASE v.t = "str" -> v.s
      [] v.t = "num" -> NatToStr(v.n)
      [] v.t = "nan" -> << "N", "a", "N" >>
      [] v.t = "null" -> << "n", "u", "l", "l" >>
      [] OTHER -> << "u", "n", "d", "e", "f", "i", "n", "e", "d" >>

\* a === b
StrictEq(a, b) == a = b /\ a.t # "nan"

\* a == null
IsNullish(v) == v.t \in {"undef", "null"}

\* a > b, for a and b that are not undefined: two strings compare by code
\* units, any other pair as numbers, and a comparison with NaN is false.
Greater(a, b) ==
    IF a.t = "str" /\ b.t = "str" THEN StrLess(b.s, a.s)
    ELSE LET x == ToNumber(a)
             y == ToNumber(b)
         IN  x.t = "num" /\ y.t = "num" /\ x.n > y.n

-----------------------------------------------------------------------------
(* Objects. *)

\* r[k], undefined for an absent property
Get(r, k) == IF k \in DOMAIN r THEN r[k] ELSE Undef

\* { ...base, ...over }
Spread(base, over) ==
    [k \in DOMAIN base \cup DOMAIN over |->
        IF k \in DOMAIN over THEN over[k] ELSE base[k]]

EmptyObject == [k \in {} |-> Undef]

\* f itself, which TLC then holds as a table and does not compute again at
\* every application.
Tabulated(f) == f @@ << >>

\* Field keys.
K_id == << "i", "d" >>
K_name == << "n", "a", "m", "e" >>
K_email == << "e", "m", "a", "i", "l" >>
K_age == << "a", "g", "e" >>
K_role == << "r", "o", "l", "e" >>

RowData(id, name, email, age, role) ==
    (K_id :> id) @@ (K_name :> name) @@ (K_email :> email) @@ (K_age :> age)
        @@ (K_role :> role)

-----------------------------------------------------------------------------
(* String literals of the source. *)

S_1 == << "1" >>
S_2 == << "2" >>
S_3 == << "3" >>
S_Alice == << "A", "l", "i", "c", "e" >>
S_alice_mail ==
    << "a", "l", "i", "c", "e", "@", "e", "x", "a", "m", "p", "l", "e", ".",
       "c", "o", "m" >>
S_Admin == << "A", "d", "m", "i", "n" >>
S_John == << "J", "o", "h", "n" >>
S_john_mail ==
    << "j", "o", "h", "n", "@", "e", "x", "a", "m", "p", "l", "e", ".", "c",
       "o", "m" >>
S_IT == << "I", "T" >>
S_Doby == << "D", "o", "b", "y" >>
S_doby_mail ==
    << "d", "o", "b", "y", "@", "e", "x", "a", "m", "p", "l", "e", ".", "c",
       "o", "m" >>
S_Operations == << "O", "p", "e", "r", "a", "t", "i", "o", "n", "s" >>
S_Name == << "N", "a", "m", "e" >>
S_Email == << "E", "m", "a", "i", "l" >>
S_Age == << "A", "g", "e" >>
S_Role == << "R", "o", "l", "e" >>
S_Viewer == << "V", "i", "e", "w", "e", "r" >>
S_RowPrefix == << "R", "o", "w", " " >>
S_RowSuffix ==
    << ":", "m", "i", "s", "s", "i", "n", "g", " ", "n", "a", "m", "e", " ",
       "o", "r", " ", "e", "m", "a", "i", "l" >>
S_UserPrefix == << "U", "s", "e", "r", " " >>
S_user == << "u", "s", "e", "r" >>
S_at_example ==
    << "@", "e", "x", "a", "m", "p", "l", "e", ".", "c", "o", "m" >>

-----------------------------------------------------------------------------
(* The store: store/index.ts. *)

sampleData ==
    << RowData(Str(S_1), Str(S_Alice), Str(S_alice_mail), Num(27),
               Str(S_Admin)),
       RowData(Str(S_2), Str(S_John), Str(S_john_mail), Num(28), Str(S_IT)),
       RowData(Str(S_3), Str(S_Doby), Str(S_doby_mail), Num(29),
               Str(S_Operations)) >>

ColumnDef(key, label, visible) ==
    [key |-> key, label |-> label, visible |-> visible]

defaultColumns ==
    << ColumnDef(K_name, S_Name, TRUE), ColumnDef(K_email, S_Email, TRUE),
       ColumnDef(K_age, S_Age, TRUE), ColumnDef(K_role, S_Role, TRUE) >>

\* JSON.stringify of one object: a property whose value is undefined is
\* left out, and NaN is written as null.
StringifyObject(r) ==
    [k \in {j \in DOMAIN r : r[j].t # "undef"} |->
        IF r[k].t = "nan" THEN Null ELSE r[k]]

\* JSON.stringify(state.rows)
StringifyRows(rs) == [i \in 1..Len(rs) |-> StringifyObject(rs[i])]

\* JSON.stringify(state.columns): a column definition holds two strings and
\* a boolean, which JSON writes as they are.
StringifyColumns(cs) ==
    [i \in 1..Len(cs) |->
        [key |-> cs[i].key, label |-> cs[i].label, visible |-> cs[i].visible]]

\* A localStorage entry: absent (getItem returns null) or a JSON text, held as
\* the document it encodes.
NoItem == [kind |-> "absent", doc |-> << >>]
Item(doc) == [kind |-> "json", doc |-> doc]

\* An entry loadState gets no document from: getItem throws ("unreadable"),
\* the text is empty ("empty"), or JSON.parse throws on it ("malformed").
FailedRead(why) == [kind |-> why, doc |-> << >>]

\* A JSON document that is no array (null, 5, "abc"): it is held as the one
\* element that marks it, an object of the one key "$" with the value, since
\* the values TLC compares must be of one shape.  No key of a row has a "$".
NotArray(v) == << (<< "$" >> :> v) >>

IsArray(doc) == ~(Len(doc) = 1 /\ DOMAIN doc[1] = {<< "$" >>})

loadState(raw, fallback) == IF raw.kind = "json" THEN raw.doc ELSE fallback

\* state.rows.findIndex((r) => r.id === id), 0 when there is none (the
\* source's -1; the sequences here start at 1).
RECURSIVE FindIndexFrom(_, _, _)
FindIndexFrom(rs, id, i) ==
    IF i > Len(rs) THEN 0
    ELSE IF StrictEq(Get(rs[i], K_id), id) THEN i
    ELSE FindIndexFrom(rs, id, i + 1)

findIndex(rs, id) == FindIndexFrom(rs, id, 1)

\* updateRow as an upsert: a row that matches no id is appended.
updateRowDraft_Upsert(rs, payload) ==
    LET idx == findIndex(rs, Get(payload, K_id))
    IN  IF idx >= 1 THEN [rs EXCEPT ![idx] = payload] ELSE Append(rs, payload)

\* The rows draft after updateRow's assignment.
updateRowDraft(rs, payload) ==
    LET idx == findIndex(rs, Get(payload, K_id))
    IN  IF idx >= 1 THEN [rs EXCEPT ![idx] = payload] ELSE rs

\* deleteRow as state.rows.splice(findIndex, 1): the first match goes, and
\* with no match (index -1) the last row.
deleteRowDraft_Splice(rs, id) ==
    LET idx == findIndex(rs, id)
        at == IF idx >= 1 THEN idx ELSE Len(rs)
    IN  SubSeq(rs, 1, at - 1) \o SubSeq(rs, at + 1, Len(rs))

\* state.rows.filter((r) => r.id !== id)
deleteRowDraft(rs, id) ==
    SelectSeq(rs, LAMBDA r : ~StrictEq(Get(r, K_id), id))

\* state.columns.find((col) => col.key === key), then c.visible = !c.visible
RECURSIVE FindColumnFrom(_, _, _)
FindColumnFrom(cs, key, i) ==
    IF i > Len(cs) THEN 0
    ELSE IF cs[i].key = key THEN i
    ELSE FindColumnFrom(cs, key, i + 1)

\* toggleColumn as a switch that only hides: c.visible = false.
toggleColumnDraft_Hide(cs, key) ==
    LET c == FindColumnFrom(cs, key, 1)
    IN  IF c >= 1 THEN [cs EXCEPT ![c].visible = FALSE] ELSE cs

toggleColumnDraft(cs, key) ==
    LET c == FindColumnFrom(cs, key, 1)
    IN  IF c >= 1 THEN [cs EXCEPT ![c].visible = ~cs[c].visible] ELSE cs

\* state.columns.push(def)
addColumnDraft(cs, def) == Append(cs, def)

-----------------------------------------------------------------------------
(* The CSV codec: utils/csv.ts. *)

\* A CSV text is held as its lines, each line as its fields; an empty line
\* is the line of one empty field.
IsEmptyLine(l) == Len(l) = 1 /\ l[1] = << >>

\* Papa.parse(text, { header: true, skipEmptyLines: true }).data: the first
\* line that is not empty names the fields, and every later line that is not
\* empty is an object of as many of them as the line has fields.
PapaParse(text) ==
    LET ls == SelectSeq(text, LAMBDA l : ~IsEmptyLine(l))
    IN  IF ls = << >> THEN << >>
        ELSE LET header == Head(ls)
                 body == Tail(ls)
                 Width(l) == IF Len(l) < Len(header) THEN Len(l)
                             ELSE Len(header)
             IN  [i \in 1..Len(body) |->
                    [k \in {header[j] : j \in 1..Width(body[i])} |->
                        Str(body[i][CHOOSE j \in 1..Width(body[i]) :
                                        header[j] = k])]]

\* `${Date.now()}-${i}`
SynthesizedId(now, i) == Str(NatToStr(now) \o << "-" >> \o NatToStr(i))

\* parseCSV with the raw row spread first, so that the defaults win.
ReconcileRow_DefaultsLast(r, i, now) ==
    Spread(r,
           RowData(OrElse(Get(r, K_id), SynthesizedId(now, i)),
                   OrElse(Get(r, K_name), Str(<< >>)),
                   OrElse(Get(r, K_email), Str(<< >>)),
                   OrElse(Get(r, K_age), Num(0)),
                   OrElse(Get(r, K_role), Str(S_Viewer))))

\* The object parseCSV builds for the raw row r at index i (from 0).
ReconcileRow(r, i, now) ==
    Spread(RowData(OrElse(Get(r, K_id), SynthesizedId(now, i)),
                   OrElse(Get(r, K_name), Str(<< >>)),
                   OrElse(Get(r, K_email), Str(<< >>)),
                   OrElse(Get(r, K_age), Num(0)),
                   OrElse(Get(r, K_role), Str(S_Viewer))),
           r)

\* The check with && for ||: an error only when both fields are missing.
MissingRequired_Both(r) ==
    ~Truthy(Get(r, K_name)) /\ ~Truthy(Get(r, K_email))

\* !r["name"] || !r["email"]
MissingRequired(r) == ~Truthy(Get(r, K_name)) \/ ~Truthy(Get(r, K_email))

RowError(i) == S_RowPrefix \o NatToStr(i + 1) \o S_RowSuffix

\* The errors pushed while mapping the raw rows from index i (from 0) on.
RECURSIVE CollectErrors(_, _)
CollectErrors(raw, i) ==
    IF i >= Len(raw) THEN << >>
    ELSE (IF MissingRequired(raw[i + 1]) THEN << RowError(i) >> ELSE << >>)
             \o CollectErrors(raw, i + 1)

parseCSV(text, now) ==
    LET raw == PapaParse(text)
    IN  [data |-> [i \in 1..Len(raw) |-> ReconcileRow(raw[i], i - 1, now)],
         errors |-> CollectErrors(raw, 0)]

\* The empty line
EmptyLine == << << >> >>

\* Whether an object key is an array index ("0", "7", "12"): Object.keys
\* lists such keys first, in ascending order.
IsIndexKey(k) ==
    /\ k # << >>
    /\ \A i \in 1..Len(k) : IsDigit(k[i])
    /\ Len(k) = 1 \/ k[1] # "0"

\* Object.keys(out) for the object that out[item] = r[item] builds over
\* the keys given: each key once, the array indices first in ascending order,
\* then the others in the order of their first assignment.
ObjectKeys(keys) ==
    LET I == {i \in 1..Len(keys) : \A j \in 1..(i - 1) : keys[j] # keys[i]}
        ints == {i \in I : IsIndexKey(keys[i])}
        rank(i) ==
            IF i \in ints
            THEN 1 + Cardinality({j \in ints : DigitsToNat(keys[j], 0)
                                                   < DigitsToNat(keys[i], 0)})
            ELSE Cardinality(ints) + 1
                     + Cardinality({j \in I \ ints : j < i})
    IN  [p \in 1..Cardinality(I) |-> keys[CHOOSE i \in I : rank(i) = p]]

\* The text Papa.unparse writes for one value: nothing for undefined and
\* null, and otherwise its string (quoted where the CSV syntax needs it, which
\* the fields of a line held apart do not show).
Safe(v) == IF IsNullish(v) THEN << >> ELSE ToStr(v)

\* Papa.unparse(data) for an array of objects whose keys, as Object.keys
\* lists those of the first, are `fields`: the empty text for an empty array;
\* otherwise a line of the fields, when there are any, and a line for every
\* object with its values under the fields.
PapaUnparse(data, fields) ==
    IF data = << >> THEN << EmptyLine >>
    ELSE IF fields = << >> THEN [i \in 1..Len(data) |-> EmptyLine]
    ELSE << fields >> \o
         [i \in 1..Len(data) |->
             [c \in 1..Len(fields) |-> Safe(data[i][fields[c]])]]

\* The text of the Blob exportCSV returns.
exportCSV(rs, visibleKeys) ==
    LET K == {visibleKeys[c] : c \in 1..Len(visibleKeys)}
        data == [i \in 1..Len(rs) |-> [k \in K |-> Get(rs[i], k)]]
    IN  PapaUnparse(data, ObjectKeys(visibleKeys))

-----------------------------------------------------------------------------
(* The seed fetch: fetchUsers in App.tsx. *)

K_username == << "u", "s", "e", "r", "n", "a", "m", "e" >>
K_phone == << "p", "h", "o", "n", "e" >>
K_website == << "w", "e", "b", "s", "i", "t", "e" >>
K_company == << "c", "o", "m", "p", "a", "n", "y" >>
K_address == << "a", "d", "d", "r", "e", "s", "s" >>
\* u.company?.name and u.address?.city, held as properties of the record
K_company_name ==
    << "c", "o", "m", "p", "a", "n", "y", ".", "n", "a", "m", "e" >>
K_address_city ==
    << "a", "d", "d", "r", "e", "s", "s", ".", "c", "i", "t", "y" >>

\* What the request ends with: it rejects, its body is not JSON, or its body
\* decodes to `data`, an array or not, whose elements are objects or null.
Rejected == [kind |-> "reject", isArray |-> FALSE, users |-> << >>]
Undecodable == [kind |-> "undecodable", isArray |-> FALSE, users |-> << >>]
Body(isArray, users) == [kind |-> "body", isArray |-> isArray, users |-> users]

User(fields) == [isNull |-> FALSE, f |-> fields]
NullUser == [isNull |-> TRUE, f |-> EmptyObject]

\* The object data.map builds for the user u at index i (from 0); age is the
\* value Math.floor(Math.random() * 43) + 18 took.
MapUser(u, i, age) ==
    (K_id :> Str(ToStr(Get(u.f, K_id))))
    @@ (K_name :>
            OrElse(Get(u.f, K_name),
                   OrElse(Get(u.f, K_username),
                          Str(S_UserPrefix \o NatToStr(i + 1)))))
    @@ (K_email :>
            OrElse(Get(u.f, K_email),
                   Str(S_user \o NatToStr(i + 1) \o S_at_example)))
    @@ (K_age :> Num(age))
    @@ (K_role :> Str(S_Viewer))
    @@ (K_phone :> Get(u.f, K_phone))
    @@ (K_website :> Get(u.f, K_website))
    @@ (K_company :> Get(u.f, K_company_name))
    @@ (K_address :> Str(ToStr(OrElse(Get(u.f, K_address_city), Str(<< >>)))))

\* Whether the try block of fetchUsers reaches dispatch(setRows(mapped)):
\* fetch resolved, res.json() resolved, data.map exists and no element's
\* property read throws.
FetchReachesDispatch(resp) ==
    /\ resp.kind = "body"
    /\ resp.isArray
    /\ \A i \in 1..Len(resp.users) : ~resp.users[i].isNull

Mapped(resp, ages) ==
    [i \in 1..Len(resp.users) |-> MapUser(resp.users[i], i - 1, ages[i])]

-----------------------------------------------------------------------------
(* The derived view: filtered and paginated in App.tsx. *)

LowerCased ==
    [c \in DOMAIN CodeUnits |->
        IF CodeUnit("A") <= CodeUnit(c) /\ CodeUnit(c) <= CodeUnit("Z")
        THEN Alphabet[CodeUnit(c) - CodeUnit("A") + CodeUnit("a")]
        ELSE c]

\* String.prototype.toLowerCase
ToLowerCase(s) == [i \in 1..Len(s) |-> LowerCased[s[i]]]

\* String.prototype.includes
Includes(s, q) ==
    \E i \in 0..(Len(s) - Len(q)) : \A k \in 1..Len(q) : s[i + k] = q[k]

\* Object.values(r).some((v) => String(v).toLowerCase().includes(q))
RowMatches(r, q) ==
    \E k \in DOMAIN r :
        LET v == ToLowerCase(ToStr(r[k])) IN Includes(v, q)

\* The filter stage without the trim of the search text.
FilterRows_NoTrim(rs, searchText) ==
    LET q == ToLowerCase(searchText)
    IN  SelectSeq(rs, LAMBDA r : q = << >> \/ RowMatches(r, q))

\* The filter stage.
FilterRows(rs, searchText) ==
    LET q == ToLowerCase(Trim(searchText))
    IN  SelectSeq(rs, LAMBDA r : q = << >> \/ RowMatches(r, q))

\* The comparator handed to sort.
Compare(a, b, key, dir) ==
    LET av == Get(a, key)
        bv == Get(b, key)
    IN  IF StrictEq(av, bv) THEN 0
        ELSE IF IsNullish(av) THEN (IF dir = "asc" THEN -1 ELSE 1)
        ELSE IF IsNullish(bv) THEN (IF dir = "asc" THEN 1 ELSE -1)
        ELSE LET res == IF Greater(av, bv) THEN 1 ELSE -1
             IN  IF dir = "asc" THEN res ELSE -res

\* The comparator's answers on every pair of elements of xs.
CompareMatrix(xs, key, dir) ==
    Tabulated([i \in 1..Len(xs), j \in 1..Len(xs) |->
                  Compare(xs[i], xs[j], key, dir)])

\* ECMAScript's consistent comparator, on the n elements compared in c:
\* sort's order is defined by the comparator only when it is one.  Its
\* conditions (a = a, and =, < and > each transitive and agreeing with one
\* another) hold exactly when the comparator compares the elements as some
\* ranking of them does, and then as the count of the elements before each.
ConsistentComparator(c, n) ==
    LET I == 1..n
        before ==
            Tabulated([i \in I |-> Cardinality({j \in I : c[j, i] < 0})])
    IN  \A i, j \in I : /\ (c[i, j] < 0) = (before[i] < before[j])
                        /\ (c[i, j] = 0) = (before[i] = before[j])

\* The stable sort of xs under a consistent comparator: an element stands
\* behind those that come before it and those equal to it that stood before
\* it.
StableSort(xs, c) ==
    LET I == 1..Len(xs)
        place ==
            Tabulated([i \in I |->
                          1 + Cardinality({j \in I : \/ c[j, i] < 0
                                                     \/ c[j, i] = 0 /\ j < i})])
    IN  [p \in I |-> xs[CHOOSE i \in I : place[i] = p]]

\* data.slice().sort(comparator): the stable sort under a consistent
\* comparator, and otherwise an order the engine chooses.
SortOutcomes(xs, key, dir) ==
    LET c == CompareMatrix(xs, key, dir)
    IN  IF ConsistentComparator(c, Len(xs)) THEN {StableSort(xs, c)}
        ELSE {[i \in 1..Len(xs) |-> xs[p[i]]] :
                p \in Permutations(1..Len(xs))}

\* The values `filtered` can take.
FilteredOutcomes(rs, searchText, key, dir) ==
    IF key.t = "null" \/ key.s = << >> THEN {FilterRows(rs, searchText)}
    ELSE SortOutcomes(FilterRows(rs, searchText), key.s, dir)

\* Array.prototype.slice(from, to), for 0 <= from <= to
Slice(xs, from, to) ==
    SubSeq(xs, from + 1, IF to < Len(xs) THEN to ELSE Len(xs))

rowsPerPage == 5

\* The slice with the page counted from 1.
Paginated_FromOne(flt, pg) ==
    Slice(flt, (pg + 1) * rowsPerPage, (pg + 2) * rowsPerPage)

Paginated(flt, pg) == Slice(flt, pg * rowsPerPage, (pg + 1) * rowsPerPage)

-----------------------------------------------------------------------------
(* Inputs. *)

\* The data lines of the CSV texts explored.
MaxCsvLines == 2

\* The rows of the longest import explored: more than one page of them.
MaxBulkRows == 12

K_dept == << "d", "e", "p", "t" >>
S_7 == << "7" >>
S_blank == << " " >>
S_100 == << "1", "0", "0" >>
S_abc == << "a", "b", "c" >>
S_ID == << "I", "D" >>
S_Dept == << "D", "e", "p", "t" >>
S_Full_Name == << "F", "u", "l", "l", " ", " ", "N", "a", "m", "e" >>
S_Leanne == << "L", "e", "a", "n", "n", "e" >>
S_Bret == << "B", "r", "e", "t" >>
S_555 == << "5", "5", "5" >>
S_Gwen == << "G", "w", "e", "n" >>

\* Date.now() at an import
Clock == {1700}

CsvHeaders ==
    { << K_name, K_email >>, << K_id, K_name, K_email >>,
      << K_name, K_email, K_age >>, << K_email, K_role, K_dept >> }

CsvFields == { << >>, S_7 }

SeqsUpTo(S, n) == UNION {[1..m -> S] : m \in 0..n}

\* A line has at least one field and, here, no more fields than the header;
\* the line of one blank is not an empty line.
CsvLines(header) ==
    (SeqsUpTo(CsvFields, Len(header)) \ {<< >>}) \cup {<< S_blank >>}

CsvTexts ==
    UNION {{<< h >> \o ls : ls \in SeqsUpTo(CsvLines(h), MaxCsvLines)} :
            h \in CsvHeaders}

\* A text of n well-formed lines under the header name,email.
BulkText(n) ==
    << << K_name, K_email >> >> \o
    [i \in 1..n |->
        << S_user \o NatToStr(i), S_user \o NatToStr(i) \o S_at_example >>]

\* The texts imported while the other handlers run.
AppCsvTexts ==
    { << << K_name, K_email >>, << S_7, S_7 >> >>,
      << << K_id, K_name, K_email >>, << S_7, S_7, S_7 >>,
         << S_7, S_7, S_7 >> >>,
      << << K_id, K_name, K_email >>, << << >>, S_7, << >> >> >> }

\* What is typed into a cell (a cleared field gives the empty text) and into
\* the search box, and as a column label.
EditInputs == { S_100, S_3, S_abc, << >> }
SearchInputs == { S_Alice, S_blank, S_7 }
LabelInputs == { S_ID, S_Full_Name, S_blank }

U_full ==
    User((K_id :> Num(1)) @@ (K_name :> Str(S_Leanne))
         @@ (K_username :> Str(S_Bret)) @@ (K_email :> Str(S_alice_mail))
         @@ (K_phone :> Str(S_555)) @@ (K_website :> Str(S_abc))
         @@ (K_company_name :> Str(S_IT)) @@ (K_address_city :> Str(S_Gwen)))
U_named == User((K_id :> Num(2)) @@ (K_username :> Str(S_Bret)))
U_bare == User((K_id :> Num(3)))

\* The ends of the request explored.
Responses ==
    { Rejected, Undecodable, Body(FALSE, << >>),
      Body(TRUE, << U_full, NullUser >>), Body(TRUE, << >>),
      Body(TRUE, << U_named, U_bare >>), Body(TRUE, << U_full >>) }

\* The least and the greatest age Math.random can give.
AgeDraws == {18, 60}

-----------------------------------------------------------------------------
(* State. *)

VARIABLES
    rows,           \* store.data.rows
    columns,        \* store.columns.columns
    lsRows,         \* localStorage["table_rows"]
    lsColumns,      \* localStorage["table_columns"]
    page, search, sortKey, sortDir,
    filtered,       \* the memoized filtered and sorted rows
    manageOpen, importErrors, editingId, editCache, dragColIndex,
    strictMode,     \* whether <StrictMode> mounts the component twice
                    \* (a development build) or once (a production build)
    effectRuns,     \* the runs of the fetch effect so far
    inFlight,       \* the fetchUsers calls that have not ended
    mounted,        \* whether the mount has completed
    steps,          \* the handler runs since the mount
    last            \* the last handler run and what it was given

storeVars == << rows, columns, lsRows, lsColumns >>
viewVars == << page, search, sortKey, sortDir, filtered >>
uiVars == << manageOpen, importErrors, editingId, editCache, dragColIndex >>
fetchVars == << strictMode, effectRuns, inFlight, mounted >>
vars == << storeVars, viewVars, uiVars, fetchVars, steps, last >>

visibleCols == SelectSeq(columns, LAMBDA c : c.visible)

paginated == Paginated(filtered, page)

\* The pager's count
totalCount == Len(filtered)

\* The rows a previous session may have left in localStorage.
StoredRows == { << sampleData[2] >> }

\* The columns a previous session may have left: the defaults and an id
\* column added to them.
StoredColumns == { Append(defaultColumns, ColumnDef(K_id, S_ID, TRUE)) }

InitUI ==
    /\ page = 0
    /\ search = << >>
    /\ sortKey = Null
    /\ sortDir = "asc"
    /\ manageOpen = FALSE
    /\ importErrors = [set |-> FALSE, list |-> << >>]
    /\ editingId = Null
    /\ editCache = EmptyObject
    /\ dragColIndex = 0
    /\ steps = 0
    /\ last = [op |-> "init", arg |-> << >>]

Init ==
    /\ lsRows \in {NoItem} \cup {Item(StringifyRows(rs)) : rs \in StoredRows}
    /\ lsColumns \in
           {NoItem} \cup {Item(StringifyColumns(cs)) : cs \in StoredColumns}
    /\ rows = loadState(lsRows, sampleData)
    /\ columns = loadState(lsColumns, defaultColumns)
    /\ filtered = FilterRows(rows, << >>)
    /\ strictMode \in BOOLEAN
    /\ effectRuns = 0
    /\ inFlight = 0
    /\ mounted = FALSE
    /\ InitUI

-----------------------------------------------------------------------------
(* Reducers with their writes to localStorage. *)

setRows(payload) ==
    /\ rows' = payload
    /\ lsRows' = Item(StringifyRows(rows'))

\* updateRow writing to localStorage only when a row matched.
updateRow_PersistOnMatch(payload) ==
    /\ rows' = updateRowDraft(rows, payload)
    /\ lsRows' = IF findIndex(rows, Get(payload, K_id)) >= 1
                 THEN Item(StringifyRows(rows'))
                 ELSE lsRows

updateRow(payload) ==
    /\ rows' = updateRowDraft(rows, payload)
    /\ lsRows' = Item(StringifyRows(rows'))

deleteRow(id) ==
    /\ rows' = deleteRowDraft(rows, id)
    /\ lsRows' = Item(StringifyRows(rows'))

toggleColumn(key) ==
    /\ columns' = toggleColumnDraft(columns, key)
    /\ lsColumns' = Item(StringifyColumns(columns'))

addColumn(def) ==
    /\ columns' = addColumnDraft(columns, def)
    /\ lsColumns' = Item(StringifyColumns(columns'))

setColumns(payload) ==
    /\ columns' = payload
    /\ lsColumns' = Item(StringifyColumns(columns'))

\* The render after a handler: useMemo computes `filtered` again when one of
\* rows, search, sortKey and sortDir has changed.
Render ==
    IF << rows', search', sortKey', sortDir' >>
           = << rows, search, sortKey, sortDir >>
    THEN filtered' = filtered
    ELSE filtered' \in FilteredOutcomes(rows', search', sortKey', sortDir')

-----------------------------------------------------------------------------
(* The mount and the seed fetch. *)

\* One run of the effect of App.tsx, which calls fetchUsers.  React runs it
\* once on mount, and once more under StrictMode in a development build; the
\* effect returns no cleanup, so each run's fetch stays in flight.
RunEffect ==
    /\ ~mounted
    /\ effectRuns' = effectRuns + 1
    /\ inFlight' = inFlight + 1
    /\ mounted' = (effectRuns' >= (IF strictMode THEN 2 ELSE 1))
    /\ last' = [op |-> "effect", arg |-> << >>]
    /\ UNCHANGED << storeVars, viewVars, uiVars, strictMode, steps >>

\* A fetchUsers call that reaches its dispatch.
FetchResolved(resp, ages) ==
    /\ inFlight > 0
    /\ FetchReachesDispatch(resp)
    /\ DOMAIN ages = 1..Len(resp.users)
    /\ setRows(Mapped(resp, ages))
    /\ inFlight' = inFlight - 1
    /\ last' = [op |-> "fetchResolved", arg |-> Mapped(resp, ages)]
    /\ UNCHANGED << columns, lsColumns, page, search, sortKey, sortDir,
                    uiVars, strictMode, effectRuns, mounted >>
    /\ Render

\* fetchUsers calling itself again from its catch block.
FetchFailed_Retry(resp) ==
    /\ inFlight > 0
    /\ ~FetchReachesDispatch(resp)
    /\ effectRuns' = effectRuns + 1
    /\ last' = [op |-> "fetchFailed", arg |-> resp.kind]
    /\ UNCHANGED << storeVars, viewVars, uiVars, strictMode, inFlight,
                    mounted >>

\* A fetchUsers call that ends in its catch block.
FetchFailed(resp) ==
    /\ inFlight > 0
    /\ ~FetchReachesDispatch(resp)
    /\ inFlight' = inFlight - 1
    /\ last' = [op |-> "fetchFailed", arg |-> resp.kind]
    /\ UNCHANGED << storeVars, viewVars, uiVars, strictMode, effectRuns,
                    mounted >>

-----------------------------------------------------------------------------
(* The handlers of App.tsx.  The Manage Columns dialog is modal: while it is *)
(* open the page behind it takes no pointer events.                         *)

\* reader.onload of handleImportFile
ImportFile(text, now) ==
    LET res == parseCSV(text, now)
    IN  /\ ~manageOpen
        /\ importErrors' = IF res.errors # << >>
                           THEN [set |-> TRUE, list |-> res.errors]
                           ELSE importErrors
        /\ setRows(res.data)
        /\ manageOpen' = FALSE
        /\ last' = [op |-> "import", arg |-> [text |-> text, now |-> now]]
        /\ UNCHANGED << columns, lsColumns, page, search, sortKey, sortDir,
                        editingId, editCache, dragColIndex, fetchVars >>
        /\ Render

\* The Export CSV button: the text that is downloaded is kept in `last`.
handleExport ==
    LET visibleKeys == [c \in 1..Len(visibleCols) |-> visibleCols[c].key]
    IN  /\ ~manageOpen
        /\ last' = [op |-> "export",
                     arg |-> exportCSV(filtered, visibleKeys)]
        /\ UNCHANGED << storeVars, viewVars, uiVars, fetchVars >>

\* handleDoubleClick on the i-th row shown, and the Edit button's handler,
\* which is the same.
StartEdit(i) ==
    /\ ~manageOpen
    /\ i \in 1..Len(paginated)
    /\ editingId' = Get(paginated[i], K_id)
    /\ editCache' = paginated[i]
    /\ last' = [op |-> "startEdit", arg |-> i]
    /\ UNCHANGED << storeVars, viewVars, manageOpen, importErrors,
                    dragColIndex, fetchVars >>

\* Whether the i-th row shown renders its cells as text fields, with Save and
\* Cancel.
IsEditing(i) == StrictEq(editingId, Get(paginated[i], K_id))

\* onChange of the text field of visible column c in a row being edited
EditCell(i, c, text) ==
    /\ ~manageOpen
    /\ i \in 1..Len(paginated)
    /\ IsEditing(i)
    /\ c \in 1..Len(visibleCols)
    /\ editCache' = Spread(editCache, visibleCols[c].key :> Str(text))
    /\ last' = [op |-> "editCell", arg |-> visibleCols[c].key]
    /\ UNCHANGED << storeVars, viewVars, manageOpen, importErrors, editingId,
                    dragColIndex, fetchVars >>

saveEdit ==
    /\ ~manageOpen
    /\ \E i \in 1..Len(paginated) : IsEditing(i)
    /\ IF ~Truthy(editingId)
       THEN /\ last' = [op |-> "saveEdit:return", arg |-> editCache]
            /\ UNCHANGED << storeVars, viewVars, uiVars, fetchVars >>
       ELSE IF ToNumber(Get(editCache, K_age)).t = "nan"
       THEN /\ last' = [op |-> "saveEdit:alert", arg |-> editCache]
            /\ UNCHANGED << storeVars, viewVars, uiVars, fetchVars >>
       ELSE /\ updateRow(editCache)
            /\ editingId' = Null
            /\ last' = [op |-> "updateRow", arg |-> editCache]
            /\ UNCHANGED << columns, lsColumns, page, search, sortKey,
                            sortDir, manageOpen, importErrors, editCache,
                            dragColIndex, fetchVars >>
            /\ Render

cancelEdit ==
    /\ ~manageOpen
    /\ \E i \in 1..Len(paginated) : IsEditing(i)
    /\ editingId' = Null
    /\ editCache' = EmptyObject
    /\ last' = [op |-> "cancelEdit", arg |-> << >>]
    /\ UNCHANGED << storeVars, viewVars, manageOpen, importErrors,
                    dragColIndex, fetchVars >>

\* The Delete button of the i-th row shown, with the confirmation accepted.
DeleteClick(i) ==
    /\ ~manageOpen
    /\ i \in 1..Len(paginated)
    /\ ~IsEditing(i)
    /\ deleteRow(Get(paginated[i], K_id))
    /\ last' = [op |-> "deleteRow", arg |-> Get(paginated[i], K_id)]
    /\ UNCHANGED << columns, lsColumns, page, search, sortKey, sortDir,
                    uiVars, fetchVars >>
    /\ Render

SetManageOpen(open) ==
    /\ manageOpen # open
    /\ manageOpen' = open
    /\ last' = [op |-> "setManageOpen", arg |-> open]
    /\ UNCHANGED << storeVars, viewVars, importErrors, editingId, editCache,
                    dragColIndex, fetchVars >>

\* The checkbox of column c in the dialog
ToggleClick(c) ==
    /\ manageOpen
    /\ c \in 1..Len(columns)
    /\ toggleColumn(columns[c].key)
    /\ last' = [op |-> "toggleColumn", arg |-> columns[c].key]
    /\ UNCHANGED << rows, lsRows, viewVars, uiVars, fetchVars >>

\* label.replace(/\s+/g, "_")
RECURSIVE ReplaceSpaces(_)
ReplaceSpaces(s) ==
    IF s = << >> THEN << >>
    ELSE IF Head(s) = " "
    THEN << "_" >> \o ReplaceSpaces(TrimLeft(s))
    ELSE << Head(s) >> \o ReplaceSpaces(Tail(s))

\* The column the Add button dispatches for a trimmed label.
NewColumn(label) == ColumnDef(ReplaceSpaces(ToLowerCase(label)), label, TRUE)

\* The Add button of the dialog, with `text` in the label field
AddClick(text) ==
    /\ manageOpen
    /\ IF Trim(text) = << >>
       THEN /\ last' = [op |-> "addClick:return", arg |-> text]
            /\ UNCHANGED << storeVars >>
       ELSE /\ addColumn(NewColumn(Trim(text)))
            /\ last' = [op |-> "addColumn", arg |-> NewColumn(Trim(text)).key]
            /\ UNCHANGED << rows, lsRows >>
    /\ UNCHANGED << viewVars, uiVars, fetchVars >>

onDragStart(index) ==
    /\ ~manageOpen
    /\ index \in 1..Len(columns)
    /\ dragColIndex' = index
    /\ last' = [op |-> "dragStart", arg |-> index]
    /\ UNCHANGED << storeVars, viewVars, manageOpen, importErrors, editingId,
                    editCache, fetchVars >>

\* The second splice with a delete count of 1: the moved column takes the
\* place of the column at `to`.
MoveColumn_Replace(cs, from, to) ==
    LET moved == cs[from]
        rest == SubSeq(cs, 1, from - 1) \o SubSeq(cs, from + 1, Len(cs))
    IN  SubSeq(rest, 1, to - 1) \o << moved >> \o SubSeq(rest, to + 1, Len(rest))

\* newCols after the two splices: the column at `from` taken out and put in
\* at `to`.
MoveColumn(cs, from, to) ==
    LET moved == cs[from]
        rest == SubSeq(cs, 1, from - 1) \o SubSeq(cs, from + 1, Len(cs))
    IN  SubSeq(rest, 1, to - 1) \o << moved >> \o SubSeq(rest, to, Len(rest))

onDrop(index) ==
    /\ ~manageOpen
    /\ index \in 1..Len(columns)
    /\ IF dragColIndex = 0
       THEN /\ last' = [op |-> "drop:return", arg |-> index]
            /\ UNCHANGED << storeVars, dragColIndex >>
       ELSE /\ setColumns(MoveColumn(columns, dragColIndex, index))
            /\ dragColIndex' = 0
            /\ last' = [op |-> "setColumns", arg |-> << dragColIndex, index >>]
            /\ UNCHANGED << rows, lsRows >>
    /\ UNCHANGED << viewVars, manageOpen, importErrors, editingId, editCache,
                    fetchVars >>

\* onChange of the search field
SetSearch(text) ==
    /\ ~manageOpen
    /\ search' = text
    /\ page' = 0
    /\ last' = [op |-> "setSearch", arg |-> text]
    /\ UNCHANGED << storeVars, sortKey, sortDir, uiVars, fetchVars >>
    /\ Render

\* The pages the pager's back and next buttons lead to.
PagesOffered ==
    {p \in {page - 1, page + 1} :
        /\ p >= 0
        /\ (p < page \/ p * rowsPerPage < Len(filtered))}

\* onPageChange of the pager
SetPage(p) ==
    /\ ~manageOpen
    /\ p \in PagesOffered
    /\ page' = p
    /\ last' = [op |-> "setPage", arg |-> p]
    /\ UNCHANGED << storeVars, search, sortKey, sortDir, filtered, uiVars,
                    fetchVars >>

\* A click on the header of column c
handleHeaderSort(c) ==
    /\ ~manageOpen
    /\ c \in 1..Len(columns)
    /\ IF StrictEq(sortKey, Str(columns[c].key))
       THEN /\ sortDir' = (IF sortDir = "asc" THEN "desc" ELSE "asc")
            /\ sortKey' = sortKey
       ELSE /\ sortKey' = Str(columns[c].key)
            /\ sortDir' = "asc"
    /\ last' = [op |-> "headerSort", arg |-> columns[c].key]
    /\ UNCHANGED << storeVars, page, search, uiVars, fetchVars >>
    /\ Render

-----------------------------------------------------------------------------
(* The application: the mount, the ends of the seed fetch, and the handlers *)
(* that change the two stores, in any order, from the start of a session.   *)

\* One handler run, counted.
Counted(A) == mounted /\ steps < MaxSteps /\ steps' = steps + 1 /\ A

Next ==
    \/ RunEffect
    \/ \E resp \in Responses, ages \in SeqsUpTo(AgeDraws, 2) :
           Counted(FetchResolved(resp, ages))
    \/ \E resp \in Responses : Counted(FetchFailed(resp))
    \/ \E text \in AppCsvTexts, now \in Clock : Counted(ImportFile(text, now))
    \/ \E i \in 1..rowsPerPage : Counted(StartEdit(i))
    \/ \E i \in 1..rowsPerPage, c \in 1..Len(columns), text \in EditInputs :
           Counted(EditCell(i, c, text))
    \/ Counted(saveEdit)
    \/ Counted(cancelEdit)
    \/ \E i \in 1..rowsPerPage : Counted(DeleteClick(i))
    \/ \E open \in BOOLEAN : Counted(SetManageOpen(open))
    \/ \E c \in 1..Len(columns) : Counted(ToggleClick(c))
    \/ \E text \in LabelInputs : Counted(AddClick(text))
    \/ \E index \in 1..Len(columns) : Counted(onDragStart(index))
    \/ \E index \in 1..Len(columns) : Counted(onDrop(index))

Spec == Init /\ [][Next]_vars

-----------------------------------------------------------------------------
(* The CSV codec on its own: one import of any of the texts into a fresh    *)
(* session.                                                                 *)

InitCSV ==
    /\ Init
    /\ ~strictMode
    /\ lsRows = NoItem
    /\ lsColumns = NoItem

NextCSV ==
    \/ RunEffect
    \/ /\ mounted
       /\ steps = 0
       /\ steps' = 1
       /\ \E text \in CsvTexts, now \in Clock : ImportFile(text, now)

SpecCSV == InitCSV /\ [][NextCSV]_vars

-----------------------------------------------------------------------------
(* The view on its own: the search box, the pager and the column headers    *)
(* over a store that is left alone.  The store holds either a bulk import   *)
(* or the sample rows after edits of their age and dept cells, which        *)
(* saveEdit commits as the strings the text fields hold.                    *)

\* rs with the value of `key` in its i-th row set as saveEdit sets it, or
\* left alone for an undefined value.
EditedRow(rs, i, key, v) ==
    IF v.t = "undef" THEN rs
    ELSE updateRowDraft(rs, Spread(rs[i], key :> v))

RECURSIVE EditedRows(_, _, _, _)
EditedRows(rs, i, key, vs) ==
    IF i > Len(rs) THEN rs
    ELSE EditedRows(EditedRow(rs, i, key, vs[i]), i + 1, key, vs)

AgeEdits == { Undef, Str(S_100), Str(S_3) }
DeptEdits == { Undef, Str(S_abc) }

ViewRowLists ==
    { parseCSV(BulkText(n), 1700).data : n \in 0..MaxBulkRows }
    \cup
    { EditedRows(EditedRows(sampleData, 1, K_age, ages), 1, K_dept, depts) :
        ages \in [1..Len(sampleData) -> AgeEdits],
        depts \in [1..Len(sampleData) -> DeptEdits] }

InitView ==
    /\ rows \in ViewRowLists
    /\ lsRows = Item(StringifyRows(rows))
    /\ columns = addColumnDraft(defaultColumns, NewColumn(S_Dept))
    /\ lsColumns = Item(StringifyColumns(columns))
    /\ filtered = FilterRows(rows, << >>)
    /\ strictMode = FALSE
    /\ effectRuns = 1
    /\ inFlight = 0
    /\ mounted = TRUE
    /\ InitUI

\* One handler run, not counted: the view's states are finitely many.
Uncounted(A) == A /\ UNCHANGED steps

NextView ==
    \/ \E text \in SearchInputs \cup {<< >>} : Uncounted(SetSearch(text))
    \/ \E p \in PagesOffered : Uncounted(SetPage(p))
    \/ \E c \in 1..Len(columns) : Uncounted(handleHeaderSort(c))

SpecView == InitView /\ [][NextView]_vars

-----------------------------------------------------------------------------
(* The export on its own: the Export CSV button over the rows an import or  *)
(* the seed fetch has left and the columns the dialog and the drags have    *)
(* left, with the dialog's checkboxes, the search box and the pager; and    *)
(* the import of the file that was just downloaded.                         *)

\* More rows than a page holds.
ExportBulkRows == 6

ExportRowLists ==
    { << >>,
      sampleData,
      parseCSV(<< << K_name, K_email >>, << << >>, S_7 >>, << S_7, S_7 >> >>,
               1700).data,
      parseCSV(<< << K_id, K_name, K_email >>, << S_7, S_Alice, S_blank >> >>,
               1700).data,
      Mapped(Body(TRUE, << U_named, U_bare >>), << 18, 60 >>),
      parseCSV(BulkText(ExportBulkRows), 1700).data }

ExportColumnLists ==
    { defaultColumns,
      addColumnDraft(defaultColumns, ColumnDef(K_id, S_ID, TRUE)),
      addColumnDraft(defaultColumns, NewColumn(S_7)),
      addColumnDraft(defaultColumns, NewColumn(S_Name)),
      MoveColumn(defaultColumns, 1, 3) }

InitExport ==
    /\ rows \in ExportRowLists
    /\ lsRows = Item(StringifyRows(rows))
    /\ columns \in ExportColumnLists
    /\ lsColumns = Item(StringifyColumns(columns))
    /\ filtered = FilterRows(rows, << >>)
    /\ strictMode = FALSE
    /\ effectRuns = 1
    /\ inFlight = 0
    /\ mounted = TRUE
    /\ InitUI

\* The import of the file the last export wrote.
Reimport(now) == last.op = "export" /\ ImportFile(last.arg, now)

NextExport ==
    \/ \E open \in BOOLEAN : Uncounted(SetManageOpen(open))
    \/ \E c \in 1..Len(columns) : Uncounted(ToggleClick(c))
    \/ \E text \in {<< >>, S_Alice} : Uncounted(SetSearch(text))
    \/ \E p \in PagesOffered : Uncounted(SetPage(p))
    \/ Uncounted(handleExport)
    \/ \E now \in Clock : Uncounted(Reimport(now))

SpecExport == InitExport /\ [][NextExport]_vars

-----------------------------------------------------------------------------
(* The start of a session over whatever localStorage holds: the entries a   *)
(* session of the app writes, and entries it did not write.  A store that   *)
(* holds no array makes the first render throw, so no effect runs.          *)

StoredRowItems ==
    { NoItem, FailedRead("unreadable"), FailedRead("empty"),
      FailedRead("malformed"), Item(<< >>) }
    \cup {Item(StringifyRows(rs)) : rs \in StoredRows}
    \cup {Item(NotArray(v)) : v \in {Null, Num(5), Str(S_abc)}}

StoredColumnItems ==
    { NoItem, FailedRead("unreadable"), FailedRead("empty"),
      FailedRead("malformed"), Item(<< >>) }
    \cup {Item(StringifyColumns(cs)) : cs \in StoredColumns}

InitLoad ==
    /\ lsRows \in StoredRowItems
    /\ lsColumns \in StoredColumnItems
    /\ rows = loadState(lsRows, sampleData)
    /\ columns = loadState(lsColumns, defaultColumns)
    /\ filtered = IF IsArray(rows) THEN FilterRows(rows, << >>) ELSE << >>
    /\ strictMode \in BOOLEAN
    /\ effectRuns = 0
    /\ inFlight = 0
    /\ mounted = FALSE
    /\ InitUI

NextLoad ==
    \/ IsArray(rows) /\ RunEffect
    \/ \E resp \in Responses, ages \in SeqsUpTo(AgeDraws, 2) :
           Counted(FetchResolved(resp, ages))
    \/ \E resp \in Responses : Counted(FetchFailed(resp))

SpecLoad == InitLoad /\ [][NextLoad]_vars

-----------------------------------------------------------------------------
(* The pager with the handlers that change the rows: the search box, the    *)
(* pager, the Delete buttons, the imports and the end of the seed fetch,    *)
(* which is still in flight, over rows an import has left.                  *)

InitPage ==
    /\ rows \in ExportRowLists
    /\ lsRows = Item(StringifyRows(rows))
    /\ columns = defaultColumns
    /\ lsColumns = NoItem
    /\ filtered = FilterRows(rows, << >>)
    /\ strictMode = FALSE
    /\ effectRuns = 1
    /\ inFlight = 1
    /\ mounted = TRUE
    /\ InitUI

NextPage ==
    \/ \E text \in SearchInputs \cup {<< >>} : Uncounted(SetSearch(text))
    \/ \E p \in PagesOffered : Uncounted(SetPage(p))
    \/ \E i \in 1..rowsPerPage : Uncounted(DeleteClick(i))
    \/ \E text \in AppCsvTexts \cup {BulkText(ExportBulkRows)}, now \in Clock :
           Uncounted(ImportFile(text, now))
    \/ \E resp \in Responses, ages \in SeqsUpTo(AgeDraws, 2) :
           Uncounted(FetchResolved(resp, ages))

SpecPage == InitPage /\ [][NextPage]_vars

-----------------------------------------------------------------------------
(* Properties of the row store, checked under Spec. *)

IdOf(r) == Get(r, K_id)

\* A step that is a run of the handler that leaves `op` in `last`.
Ran(op) == steps' # steps /\ last'.op = op

\* C1: in every reachable state of the row store no two rows share an id and
\* every row has a defined, non-empty id.
C1_UniqueDefinedIds ==
    /\ \A i, j \in 1..Len(rows) : i # j => IdOf(rows[i]) # IdOf(rows[j])
    /\ \A i \in 1..Len(rows) : IdOf(rows[i]).t = "str" /\ IdOf(rows[i]).s # << >>

\* C2: after every setRows, updateRow (matched or not) and deleteRow the
\* value under table_rows is the encoding of the rows then in the store, after
\* every toggleColumn, addColumn and setColumns the value under table_columns
\* is the encoding of the columns then in the store, and neither list changes
\* without its value being written; so the persisted value is always that of
\* the state after the last mutation.
C2_PersistedIsCurrent ==
    [][/\ (Ran("fetchResolved") \/ Ran("import") \/ Ran("updateRow")
              \/ Ran("deleteRow") \/ rows' # rows)
          => lsRows' = Item(StringifyRows(rows'))
       /\ (Ran("toggleColumn") \/ Ran("addColumn") \/ Ran("setColumns")
              \/ columns' # columns)
          => lsColumns' = Item(StringifyColumns(columns'))]_vars

\* An update that matched no id, after which the storage holds the rows all
\* the same.
C2_Witness ==
    /\ last.op = "updateRow"
    /\ \A i \in 1..Len(rows) : IdOf(rows[i]) # IdOf(last.arg)
    /\ lsRows = Item(StringifyRows(rows))
    /\ lsColumns.kind = "json"

\* C3: updateRow(r) leaves the rows as they are when none has r's id, and
\* otherwise puts r in the place of a row that has it, the length and every
\* other row staying as they were.
C3_UpdateReplacesInPlace ==
    [][Ran("updateRow") =>
          LET r == last'.arg
              hits == {i \in 1..Len(rows) : IdOf(rows[i]) = IdOf(r)}
          IN  IF hits = {} THEN rows' = rows
              ELSE \E i \in hits : rows' = [rows EXCEPT ![i] = r]]_vars

\* An update whose row carries an id no stored row has.
C3_Witness ==
    /\ last.op = "updateRow"
    /\ Len(rows) = 3
    /\ \A i \in 1..Len(rows) : IdOf(rows[i]) # IdOf(last.arg)

\* C4: deleteRow(id) leaves exactly the rows whose id is not `id`, in their
\* order, and a second deleteRow(id), which then finds no such row, changes
\* nothing.
C4_DeleteRemovesAndIsIdempotent ==
    [][Ran("deleteRow") =>
          LET id == last'.arg
              kept == {i \in 1..Len(rows) : IdOf(rows[i]) # id}
              nth(k) ==
                  CHOOSE i \in kept : Cardinality({j \in kept : j < i}) = k - 1
          IN  /\ Len(rows') = Cardinality(kept)
              /\ \A k \in 1..Len(rows') : rows'[k] = rows[nth(k)]
              /\ \A k \in 1..Len(rows') : IdOf(rows'[k]) # id
              /\ deleteRowDraft(rows', id) = rows']_vars

\* A delete that took the middle row of three and left the other two.
C4_Witness ==
    /\ last.op = "deleteRow"
    /\ last.arg = Str(S_2)
    /\ rows = << sampleData[1], sampleData[3] >>

\* C5: the seed fetch runs once, and when it reaches its dispatch the store
\* holds exactly the mapped records, whatever was done to the rows before.
C5_FetchRunsOnceAndReplaces ==
    /\ effectRuns <= 1
    /\ last.op = "fetchResolved" => rows = last.arg

\* C6: a seed fetch that fails leaves the rows and their persisted value as
\* they were and starts no fetch, and no fetch is started once the mount has
\* completed.
C6_FailureLeavesStateAlone ==
    [][/\ Ran("fetchFailed") => /\ rows' = rows
                                /\ lsRows' = lsRows
                                /\ effectRuns' = effectRuns
                                /\ inFlight' = inFlight - 1
       /\ mounted => effectRuns' = effectRuns]_vars

\* A fetch whose mapping threw, after an import had replaced the rows.
C6_Witness ==
    /\ last.op = "fetchFailed"
    /\ last.arg = "body"
    /\ rows # sampleData
    /\ lsRows = Item(StringifyRows(rows))

-----------------------------------------------------------------------------
(* Properties of parseCSV, checked under SpecCSV. *)

\* The row of defaults for the raw row at index i (from 0).
DefaultRow(now, i) ==
    RowData(SynthesizedId(now, i), Str(<< >>), Str(<< >>), Num(0),
            Str(S_Viewer))

\* C7: every key of a raw parsed row holds its raw value in the row built,
\* truthy or not; the defaults (the synthesized id, name "", email "", age 0,
\* role "Viewer") stand only for the keys the raw row lacks, and the other
\* columns of the header are carried through.
C7_RawFieldsWin ==
    last.op = "import" =>
        LET raw == PapaParse(last.arg.text)
        IN  /\ Len(rows) = Len(raw)
            /\ \A i \in 1..Len(raw) :
                  LET d == DefaultRow(last.arg.now, i - 1)
                  IN  /\ DOMAIN rows[i] = DOMAIN raw[i] \cup DOMAIN d
                      /\ \A k \in DOMAIN raw[i] : rows[i][k] = raw[i][k]
                      /\ \A k \in DOMAIN d \ DOMAIN raw[i] : rows[i][k] = d[k]

\* A row under the header email,role,dept whose empty raw role stands in
\* place of "Viewer", whose dept was carried through and whose id, name and age
\* are the defaults.
C7_Witness ==
    /\ last.op = "import"
    /\ Len(rows) = 1
    /\ rows[1] = RowData(SynthesizedId(1700, 0), Str(<< >>), Str(S_7), Num(0),
                         Str(<< >>)) @@ (K_dept :> Str(S_7))

\* The lines of a text that are not empty, the header among them.
NonEmptyLines(text) == SelectSeq(text, LAMBDA l : l # << << >> >>)

\* The field of line l under the column `key` of the header, empty when the
\* header has no such column or the line ends before it.
FieldUnder(header, l, key) ==
    IF \E j \in 1..Len(header) : j <= Len(l) /\ header[j] = key
    THEN l[CHOOSE j \in 1..Len(header) : j <= Len(l) /\ header[j] = key]
    ELSE << >>

\* C8: parseCSV returns one row for every data line that is not empty, and
\* its errors name data row i (from 1) exactly when that line's name or email
\* is missing or empty, the row being returned all the same.
C8_BestEffort ==
    last.op = "import" =>
        LET ls == NonEmptyLines(last.arg.text)
            header == Head(ls)
            data == Tail(ls)
            bad == {i \in 1..Len(data) :
                       \/ FieldUnder(header, data[i], K_name) = << >>
                       \/ FieldUnder(header, data[i], K_email) = << >>}
            res == parseCSV(last.arg.text, last.arg.now)
            named == {i \in 1..Len(data) :
                         \E e \in 1..Len(res.errors) :
                             res.errors[e] = RowError(i - 1)}
        IN  /\ rows = res.data
            /\ Len(rows) = Len(data)
            /\ named = bad
            /\ Len(res.errors) = Cardinality(bad)
            /\ bad # {} => importErrors = [set |-> TRUE, list |-> res.errors]

\* Two rows imported, the second of them named by the one error.
C8_Witness ==
    /\ last.op = "import"
    /\ Len(rows) = 2
    /\ importErrors = [set |-> TRUE, list |-> << RowError(1) >>]
    /\ rows[2][K_name] = Str(<< >>)

-----------------------------------------------------------------------------
(* Properties of the view, checked under SpecView. *)

Count(x, xs) == Cardinality({i \in 1..Len(xs) : xs[i] = x})

IsPermutation(xs, ys) ==
    /\ Len(xs) = Len(ys)
    /\ \A i \in 1..Len(xs) : Count(xs[i], xs) = Count(xs[i], ys)

\* C9: with a sort key set, the sorted view is a permutation of the filtered
\* rows with the rows of absent value first (ascending) or last (descending)
\* and the present values in non-decreasing (ascending) or non-increasing
\* (descending) order; with none it is the filtered rows in store order.
C9_SortedView ==
    LET base == FilterRows(rows, search)
        v(i) == Get(filtered[i], sortKey.s)
        I == 1..Len(filtered)
    IN  IF sortKey.t = "null" THEN filtered = base
        ELSE /\ IsPermutation(filtered, base)
             /\ \A i, j \in I :
                   (i < j /\ ~IsNullish(v(i)) /\ ~IsNullish(v(j)))
                   => IF sortDir = "asc" THEN ~Greater(v(i), v(j))
                      ELSE ~Greater(v(j), v(i))
             /\ \A i, j \in I :
                   (IsNullish(v(i)) /\ ~IsNullish(v(j)))
                   => IF sortDir = "asc" THEN i < j ELSE j < i

\* C10: the page shown is the slice [page * rowsPerPage, (page + 1) *
\* rowsPerPage) of the filtered and sorted rows, so at most rowsPerPage rows,
\* and the pager's count is the number of filtered rows whatever the page,
\* the sort key and the direction.
C10_PageIsSlice ==
    LET from == page * rowsPerPage
        left == Len(filtered) - from
    IN  /\ Len(paginated) <= rowsPerPage
        /\ Len(paginated) = (IF left < 0 THEN 0
                             ELSE IF left < rowsPerPage THEN left
                             ELSE rowsPerPage)
        /\ \A k \in 1..Len(paginated) : paginated[k] = filtered[from + k]
        /\ totalCount = Len(FilterRows(rows, search))

\* Twelve rows sorted by a column, the second page showing five of them.
C10_Witness ==
    /\ Len(rows) = 12
    /\ page = 1
    /\ sortKey # Null
    /\ sortDir = "desc"
    /\ Len(paginated) = 5
    /\ totalCount = 12

-----------------------------------------------------------------------------
(* Properties of the edit, the columns and the page, checked under Spec. *)

\* Whether a cell value is numeric: a number, or a text of digits.
IsNumeric(v) ==
    \/ v.t = "num"
    \/ v.t = "str" /\ v.s # << >> /\ \A i \in 1..Len(v.s) : IsDigit(v.s[i])

\* A step that is a press of Save.
SavePressed ==
    Ran("saveEdit:return") \/ Ran("saveEdit:alert") \/ Ran("updateRow")

\* C12: a save whose age is not numeric leaves the rows, their persisted value,
\* editingId and editCache as they were and dispatches no updateRow; and a
\* save that dispatches updateRow has a numeric age, dispatches the cache and
\* ends the edit.
C12_InvalidAgeRejected ==
    [][SavePressed =>
          /\ ~IsNumeric(Get(editCache, K_age)) =>
                 /\ last'.op # "updateRow"
                 /\ rows' = rows
                 /\ lsRows' = lsRows
                 /\ editingId' = editingId
                 /\ editCache' = editCache
          /\ last'.op = "updateRow" =>
                 /\ IsNumeric(Get(editCache, K_age))
                 /\ last'.arg = editCache
                 /\ rows' = updateRowDraft(rows, editCache)
                 /\ editingId' = Null]_vars

\* C13: in every reachable state no two columns of the registry have the
\* same key.
C13_UniqueColumnKeys ==
    \A i, j \in 1..Len(columns) : i # j => columns[i].key # columns[j].key

\* Keys no column of the model has.
AbsentKeys == { K_phone, << >> }

\* C14: toggleColumn(key) flips the visible flag of one column of that key and
\* leaves the order, length, keys and labels of the columns, the flag of every
\* other column and the rows as they were; for a key no column has it changes
\* nothing; and a second toggle of the same key brings the columns back.
C14_ToggleFlipsOneFlag ==
    [][Ran("toggleColumn") =>
          LET key == last'.arg
          IN  /\ \E i \in 1..Len(columns) :
                    /\ columns[i].key = key
                    /\ columns' =
                           [columns EXCEPT ![i].visible = ~columns[i].visible]
              /\ rows' = rows
              /\ toggleColumnDraft(columns', key) = columns
              /\ \A k \in AbsentKeys :
                    toggleColumnDraft(columns', k) = columns']_vars

\* The default columns after the toggle of "email", which is now hidden.
C14_Witness ==
    /\ last.op = "toggleColumn"
    /\ last.arg = K_email
    /\ columns = [defaultColumns EXCEPT ![2].visible = FALSE]
    /\ rows = sampleData

\* A column definition without its flag.
Definition(c) == << c.key, c.label >>

\* C15: no step removes a column: every definition of the columns is still
\* among them after the step, as many times; and a drop leaves a permutation
\* of the columns, of the same length, with the dragged column at the index
\* of the drop.
C15_ColumnsNeverRemoved ==
    [][/\ \A i \in 1..Len(columns) :
             Cardinality({j \in 1..Len(columns') :
                             Definition(columns'[j]) = Definition(columns[i])})
             >= Cardinality({j \in 1..Len(columns) :
                                Definition(columns[j]) = Definition(columns[i])})
       /\ Ran("setColumns") =>
             /\ IsPermutation(columns', columns)
             /\ Len(columns') = Len(columns)
             /\ columns'[last'.arg[2]] = columns[last'.arg[1]]]_vars

\* The first of the default columns dropped on the third.
C15_Witness ==
    /\ last.op = "setColumns"
    /\ last.arg = << 1, 3 >>
    /\ columns = << defaultColumns[2], defaultColumns[3], defaultColumns[1],
                    defaultColumns[4] >>

\* C20: while an edit is in progress a row of the store has the id editingId
\* and the id in editCache is editingId.
C20_EditedRowExists ==
    editingId # Null =>
        /\ \E i \in 1..Len(rows) : IdOf(rows[i]) = editingId
        /\ Get(editCache, K_id) = editingId

-----------------------------------------------------------------------------
(* Properties of the filter, checked under SpecView. *)

\* Whether the text t stands in the text s.
IsSubstring(t, s) ==
    \E from \in 1..(Len(s) + 1) :
        /\ from + Len(t) - 1 <= Len(s)
        /\ SubSeq(s, from, from + Len(t) - 1) = t

\* Whether the filter is to keep the row r under the search text.
Kept(r, text) ==
    LET q == ToLowerCase(Trim(text))
    IN  \/ q = << >>
        \/ \E k \in DOMAIN r : IsSubstring(q, ToLowerCase(ToStr(r[k])))

\* C11: the filter keeps a row exactly when the trimmed, lower-cased search
\* text is empty or stands in the lower-cased string of one of the row's
\* values, so an empty or blank search keeps every row; the rows kept are in
\* store order (as they are shown when no sort key is set).
C11_FilterKeepsMatches ==
    LET kept == SelectSeq(rows, LAMBDA r : Kept(r, search))
    IN  /\ IsPermutation(filtered, kept)
        /\ sortKey = Null => filtered = kept
        /\ Trim(search) = << >> => Len(filtered) = Len(rows)

\* The search for "Alice" over the three sample rows, which keeps the one
\* row whose name and email hold "alice".
C11_Witness ==
    /\ search = S_Alice
    /\ Len(rows) = 3
    /\ Len(filtered) = 1
    /\ filtered[1][K_email] = Str(S_alice_mail)
    /\ totalCount = 1

-----------------------------------------------------------------------------
(* Properties of the export, checked under SpecExport. *)

\* The keys handleExport passes: those of the visible columns, in the order
\* of the registry.
VisibleKeys == [c \in 1..Len(visibleCols) |-> visibleCols[c].key]

\* A line of the fields fs; a line of no field is the empty line.
LineOf(fs) == IF fs = << >> THEN EmptyLine ELSE fs

\* C16: the rows parsed from an exported text are, row for row and in order,
\* the rows exported, on every exported key whose value is a string.
C16_RoundTrip ==
    [][(last.op = "export" /\ last'.op = "import"
            /\ last'.arg.text = last.arg) =>
          /\ Len(rows') = Len(filtered)
          /\ \A i \in 1..Len(filtered), c \in 1..Len(VisibleKeys) :
                LET v == Get(filtered[i], VisibleKeys[c])
                IN  (v.t = "str" /\ i <= Len(rows'))
                        => Get(rows'[i], VisibleKeys[c]) = v]_vars

\* C17: the exported text is a line of the keys of the visible columns, in
\* the order of the registry, and then a line for every filtered row, of all
\* the pages, with the row's values under those keys in that order; and so
\* for no rows it is the line of the keys alone.
C17_ExportLines ==
    last.op = "export" =>
        /\ Len(last.arg) = 1 + Len(filtered)
        /\ last.arg[1] = LineOf(VisibleKeys)
        /\ \A i \in 1..Len(filtered) :
              i + 1 <= Len(last.arg) =>
                  last.arg[i + 1] =
                      LineOf([c \in 1..Len(VisibleKeys) |->
                                 Safe(Get(filtered[i], VisibleKeys[c]))])

-----------------------------------------------------------------------------
(* Properties of the start, checked under SpecLoad. *)

\* Whether a loaded value is a list of rows: an array whose elements have an
\* id.
IsRowList(doc) ==
    IsArray(doc) /\ \A i \in 1..Len(doc) : K_id \in DOMAIN doc[i]

\* C18: at the start the rows are a list of rows, the stored one or the three
\* sample rows, and the columns a list of column definitions, the stored one
\* or the four defaults, whatever the entries hold.
C18_StartsFromListOrDefault ==
    last.op = "init" =>
        /\ IsRowList(rows)
        /\ rows = sampleData \/ (lsRows.kind = "json" /\ rows = lsRows.doc)
        /\ columns = defaultColumns
              \/ (lsColumns.kind = "json" /\ columns = lsColumns.doc)
        /\ lsRows.kind # "json" => rows = sampleData
        /\ lsColumns.kind # "json" => columns = defaultColumns

-----------------------------------------------------------------------------
(* Properties of the pager, checked under SpecPage. *)

\* C19: in every reachable state the page index addresses a page that
\* exists: there are no filtered rows and the index is 0, or the first row of
\* the page is among the filtered rows.
C19_PageExists ==
    \/ Len(filtered) = 0 /\ page = 0
    \/ page * rowsPerPage < Len(filtered)

=============================================================================
